---- MODULE Spec2Model ----
(***************************************************************************)
(* Execution-and-audit pipeline of l4_core: the file-level AuditEngine     *)
(* (backup, write, sandbox validation, rollback), the AIRouter (engine     *)
(* selection with kill-switch overrides) and the FlowEngine (ordered,      *)
(* fail-fast step execution).                                              *)
(***************************************************************************)
EXTENDS Integers, Sequences, FiniteSets, TLC

\* ------------------------------------------------------------------------
\* Bounds
\* ------------------------------------------------------------------------
MaxCalls == 2          \* apply_change_with_audit invocations per behaviour
MaxEngines == 2        \* rows of the AIEngine table
MaxSteps == 2          \* steps of a flow definition
MaxRuns == 1           \* run_flow invocations per behaviour
MaxRetries == 1        \* largest max_retries a RuntimeEngine is built with
MaxSandboxCalls == 2   \* direct run_code invocations per behaviour
MaxTargets == 2        \* targets handed to one audit_targets call

\* ------------------------------------------------------------------------
\* Values
\* ------------------------------------------------------------------------
None == "None"                     \* Python None / a file that does not exist
Contents == {"c0", "c1"}           \* file contents
WS == " "                          \* a whitespace character
BACKUP == ".backup"                \* suffix of the backup sibling
StrPaths == {<<>>, <<WS>>, <<WS, WS>>, <<"a">>}   \* str values of file_path
Outcomes == {"exit0", "exit1", "exception"}       \* what _execute would do
Procs == {1, 2}                    \* callers of the audit engine

\* keys of AIRouter.provider_overrides
OverrideKeys == {"openai", "deepseek", "anthropic", "gemini", "internal"}
\* keys of PROVIDER_REGISTRY
PROVIDER_REGISTRY == {"openai", "deepseek", "anthropic", "gemini", "internal"}
\* provider names of AIEngine rows; "custom" is in no registry
EngineProviders == {"internal", "openai", "custom"}
Priorities == {1, 2}
EngineRows == [provider : EngineProviders, enabled : BOOLEAN,
               priority : Priorities]

StepNames == {"a", "b"}            \* step names of flow definitions
\* FlowDefinition rows handed to run_flow: definition["steps"]
FlowDefs == [id : {"f1"},
             steps : UNION {[1..n -> StepNames] : n \in 0..MaxSteps}]
\* texts a generation backend can return: a JSON object, a JSON value that
\* is not an object, text that is not JSON
Responses == {"json_object", "json_array", "plain_text"}

\* an Optional[int] column: NoInt for NULL, Some(n) for the integer n
NoInt == <<>>
Some(n) == <<n>>
\* what _execute can return: the exit code and the captured stderr
ExitCodes == {0, 1, 2}
Stderrs == {"", "boom"}
ExitResults == [raises : {None}, exit_code : ExitCodes, stderr : Stderrs]
\* what _execute can raise: the class of the exception and its str(),
\* kept in the stderr field; no exit code exists then
ExceptionClasses == {"FileNotFoundError", "PermissionError"}
RaiseResults == [raises : ExceptionClasses, exit_code : {0},
                 stderr : {"denied"}]

\* CodeSandboxRun rows handed to learn_from_sandbox by its callers:
\* error_class and error_message are free String columns
ErrorClassValues == {"RuntimeError", "A", "A:b"}
ErrorMessageValues == {"boom", "b:c", "c"}
LearnableRuns ==
    [status : {"failed"}, workspace_id : {"w1", "w2"},
     error_class : ErrorClassValues, error_message : ErrorMessageValues]
    \cup [status : {"success"}, workspace_id : {"w1", "w2"},
          error_class : {None}, error_message : {None}]

\* the "definition" and "preset" entries of an AuditTarget's metadata:
\* absent, a mapping, or a value that is not a mapping
DefinitionValues == {"absent", "dict", "list", "empty_list"}
PresetValues == {"absent", "full", "flows_only", "int"}
\* targets the orchestrator builds: flows carry a definition, presets a
\* preset
AuditTargets ==
    [type : {"flow"}, definition : DefinitionValues \ {"absent"},
     preset : {"absent"}]
    \cup [type : {"preset"}, definition : {"absent"},
          preset : PresetValues \ {"absent"}]
\* AuditActionType values that _apply_single_action dispatches on
FileActionTypes == {"create_file", "update_file", "delete_file", "update_db"}
\* rules an AuditEngine can be built with: the two reference rules and a
\* caller's rule that proposes one action on file "a"
AuditRules ==
    {[name |-> "flow_definition_rule", action_type |-> "noop"],
     [name |-> "preset_structure_rule", action_type |-> "noop"]}
    \cup [name : {"fix_rule"}, action_type : FileActionTypes]
\* an optional boolean argument: left out, or given with a value
OptionalBool == {[given |-> FALSE, value |-> FALSE]}
                \cup [given : {TRUE}, value : BOOLEAN]

\* arguments language and command a caller of run_code can pass
Languages == {"python", "shell"}
Commands == {None, "true"}

\* workspaces and flow keys a caller of run_flow_by_key can name
Workspaces == {"w1", "w2"}
FlowKeys == {"k1", "k2"}
\* table FlowDefinition as the workspace factory left it: key k1 exists in
\* both workspaces, key k2 only in w1
FlowDefinitionRows ==
    <<[id |-> "f1", workspace_id |-> "w1", key |-> "k1", steps |-> <<"a">>],
      [id |-> "f2", workspace_id |-> "w1", key |-> "k2",
       steps |-> <<"a", "b">>],
      [id |-> "f3", workspace_id |-> "w2", key |-> "k1", steps |-> <<"b">>]>>

\* ------------------------------------------------------------------------
\* State
\* ------------------------------------------------------------------------
VARIABLES
    fs,              \* file system: path -> content, None when absent
    file_audits,     \* table FileAudit, in creation order
    file_rollbacks,  \* table FileRollback
    code_diffs,      \* table CodeDiff
    sandbox_runs,    \* table CodeSandboxRun
    pc,              \* position of each apply_change_with_audit invocation
    args,            \* its arguments
    old_content,     \* its local old_content
    audit,           \* its FileAudit row (index in file_audits), 0 if none
    sandbox_status,  \* status of the sandbox run it obtained, None if none
    error,           \* exception it raised, None if none
    pre_fs,          \* file system when the invocation started
    pre_rows,        \* table sizes when the invocation started
    touched,         \* paths it opened for writing, in order
    in_flight,       \* invocations between entry and return when it started
    calls,           \* invocations started so far
    engines,         \* table AIEngine, in creation order
    provider_overrides,  \* AIRouter.provider_overrides (kill switches)
    gen,             \* outcome of the generate_text call not yet returned
    flow_runs,       \* table FlowRun, in creation order
    artifacts,       \* table Artifact
    artifact_versions,   \* table ArtifactVersion
    flow_pc,         \* position of the run_flow invocation
    flow,            \* its FlowDefinition
    flow_run,        \* its FlowRun row (index in flow_runs), 0 if none
    step_idx,        \* position of its loop in steps
    step_outputs,    \* its dict step_outputs, in insertion order
    flow_result,     \* the dict it returns
    started,         \* positions of the steps it handed to _run_step
    step_log,        \* what each of those _run_step calls did, in order
    runs,            \* run_flow invocations started so far
    flow_definitions,    \* table FlowDefinition
    max_retries,     \* RuntimeEngine.max_retries
    rt_pc,           \* position of the run_flow_by_key invocation
    rt_args,         \* its arguments workspace_id and flow_key
    rt_flow,         \* its local flow
    attempt,         \* its local attempt
    last_error,      \* its local last_error
    rt_result,       \* the dict it returns
    rt_error,        \* exception it raised, None if none
    attempt_log,     \* what each of its run_flow calls returned, in order
    sb_pc,           \* position of the direct run_code invocation
    sb_version,      \* its artifact_version (index in artifact_versions)
    sb_run,          \* its sandbox_run row (index in sandbox_runs)
    sb_exec,         \* what its _execute call did, NoExec before it
    sb_calls,        \* direct run_code invocations started so far
    learned,         \* the learn_from_sandbox calls made, in order
    error_patterns,  \* table ErrorPattern
    engine_performance,  \* table EnginePerformance
    workspace_analytics, \* table WorkspaceAnalytics
    rules,           \* AuditEngine.rules
    db,              \* whether the AuditEngine was given a session
    ra_pc,           \* position of the audit_targets invocation
    ra_args,         \* its arguments targets, apply_fixes and dry_run
    ra_target,       \* position of its outer loop in targets
    ra_rule,         \* position of its inner loop in rules
    results,         \* its local results
    report,          \* the AuditReport it returns: its results
    evaluated,       \* what each rule.evaluate call did, in order
    apply_calls,     \* the apply_actions calls made
    db_commits,      \* commits issued by the action executor
    ra_pre_fs,       \* file system when audit_targets was called
    tl_pc,           \* position of each direct learn_from_sandbox call
    tl_run,          \* the CodeSandboxRun it was given
    tl_existing      \* whether its lookup found an ErrorPattern

audit_vars == <<fs, file_audits, file_rollbacks, code_diffs, sandbox_runs,
                pc, args, old_content, audit, sandbox_status, error,
                pre_fs, pre_rows, touched, in_flight, calls>>

router_vars == <<engines, provider_overrides, gen>>

flow_vars == <<flow_runs, artifacts, artifact_versions, flow_pc, flow,
               flow_run, step_idx, step_outputs, flow_result, started,
               step_log, runs>>

runtime_vars == <<flow_definitions, max_retries, rt_pc, rt_args, rt_flow,
                  attempt, last_error, rt_result, rt_error, attempt_log>>

sandbox_vars == <<sb_pc, sb_version, sb_run, sb_exec, sb_calls, learned,
                  error_patterns, engine_performance, workspace_analytics>>

rule_vars == <<rules, db, ra_pc, ra_args, ra_target, ra_rule, results,
               report, evaluated, apply_calls, db_commits, ra_pre_fs>>

\* audit_vars without the file system
audit_db_vars == <<file_audits, file_rollbacks, code_diffs, sandbox_runs, pc,
                   args, old_content, audit, sandbox_status, error, pre_fs,
                   pre_rows, touched, in_flight, calls>>

\* audit_vars without the CodeSandboxRun table
audit_rest == <<fs, file_audits, file_rollbacks, code_diffs, pc, args,
                old_content, audit, sandbox_status, error, pre_fs, pre_rows,
                touched, in_flight, calls>>

\* flow_vars without the ArtifactVersion table
flow_rest == <<flow_runs, artifacts, flow_pc, flow, flow_run, step_idx,
               step_outputs, flow_result, started, step_log, runs>>

learn_vars == <<tl_pc, tl_run, tl_existing>>

vars == <<audit_vars, router_vars, flow_vars, runtime_vars, sandbox_vars,
          rule_vars, learn_vars>>

\* ------------------------------------------------------------------------
\* Helpers
\* ------------------------------------------------------------------------
RECURSIVE lstrip(_)
lstrip(s) ==
    IF s # <<>> /\ Head(s) = WS THEN lstrip(Tail(s)) ELSE s

RECURSIVE rstrip(_)
rstrip(s) ==
    IF s # <<>> /\ s[Len(s)] = WS THEN rstrip(SubSeq(s, 1, Len(s) - 1)) ELSE s

\* str.strip()
strip(s) == rstrip(lstrip(s))

\* f"{file_path}.backup"
BackupPath(file_path) == file_path \o <<BACKUP>>

AllPaths == StrPaths \cup {BackupPath(f) : f \in StrPaths}

InvalidPath_NoStrip(is_str, file_path) == ~is_str \/ file_path = <<>>

\* if not isinstance(file_path, str) or not file_path.strip()
InvalidPath(is_str, file_path) == ~is_str \/ strip(file_path) = <<>>

DryRunReturns_Skipped(dry_run) == FALSE

\* if dry_run: ... return audit
DryRunReturns(dry_run) == dry_run

backup_old_file_Always(f, file_path, old) ==
    [f EXCEPT ![BackupPath(file_path)] = IF old # None THEN old ELSE ""]

\* if old_content is not None: write it to f"{file_path}.backup"
backup_old_file(f, file_path, old) ==
    IF old # None THEN [f EXCEPT ![BackupPath(file_path)] = old] ELSE f

NoArgs == [is_str |-> TRUE, file_path |-> <<>>, new_content |-> None,
           run_sandbox |-> FALSE, dry_run |-> FALSE, outcome |-> "exit0"]

NoRows == [audits |-> 0, rollbacks |-> 0, diffs |-> 0, runs |-> 0]

Rows == [audits |-> Len(file_audits), rollbacks |-> Len(file_rollbacks),
         diffs |-> Len(code_diffs), runs |-> Len(sandbox_runs)]

\* ArtifactVersion(...) built by _run_sandbox_for_file: the artifact
\* relationship of the transient row is never set
fake_artifact_version(new_content) ==
    [artifact |-> None, artifact_id |-> "audit-artifact", version_index |-> 1,
     content |-> new_content, sandbox_status |-> "unknown"]

\* stderr or "Unknown error"
StderrOrUnknown(stderr) == IF stderr = "" THEN "Unknown error" ELSE stderr

finished_run_StderrDecides(x) ==
    IF x.raises # None
    THEN [status |-> "failed", sandbox_status |-> "failed",
          exit_code |-> NoInt, stderr |-> x.stderr,
          error_class |-> x.raises, error_message |-> x.stderr]
    ELSE IF x.exit_code = 0 /\ x.stderr = ""
    THEN [status |-> "success", sandbox_status |-> "passed",
          exit_code |-> Some(x.exit_code), stderr |-> x.stderr,
          error_class |-> None, error_message |-> None]
    ELSE [status |-> "failed", sandbox_status |-> "failed",
          exit_code |-> Some(x.exit_code), stderr |-> x.stderr,
          error_class |-> "RuntimeError",
          error_message |-> StderrOrUnknown(x.stderr)]

finished_run_GenericClass(x) ==
    IF x.raises # None
    THEN [status |-> "failed", sandbox_status |-> "failed",
          exit_code |-> NoInt, stderr |-> x.stderr,
          error_class |-> "RuntimeError", error_message |-> x.stderr]
    ELSE IF x.exit_code = 0
    THEN [status |-> "success", sandbox_status |-> "passed",
          exit_code |-> Some(x.exit_code), stderr |-> x.stderr,
          error_class |-> None, error_message |-> None]
    ELSE [status |-> "failed", sandbox_status |-> "failed",
          exit_code |-> Some(x.exit_code), stderr |-> x.stderr,
          error_class |-> "RuntimeError",
          error_message |-> StderrOrUnknown(x.stderr)]

\* The try/except of run_code: what the run and the version's
\* sandbox_status hold once _execute returned or raised x
finished_run(x) ==
    IF x.raises # None
    THEN [status |-> "failed", sandbox_status |-> "failed",
          exit_code |-> NoInt, stderr |-> x.stderr,
          error_class |-> x.raises, error_message |-> x.stderr]
    ELSE IF x.exit_code = 0
    THEN [status |-> "success", sandbox_status |-> "passed",
          exit_code |-> Some(x.exit_code), stderr |-> x.stderr,
          error_class |-> None, error_message |-> None]
    ELSE [status |-> "failed", sandbox_status |-> "failed",
          exit_code |-> Some(x.exit_code), stderr |-> x.stderr,
          error_class |-> "RuntimeError",
          error_message |-> StderrOrUnknown(x.stderr)]

\* What _execute does for each outcome the audit engine's caller names
execute(outcome) ==
    IF outcome = "exit0"
    THEN [raises |-> None, exit_code |-> 0, stderr |-> ""]
    ELSE IF outcome = "exit1"
    THEN [raises |-> None, exit_code |-> 1, stderr |-> "boom"]
    ELSE [raises |-> "FileNotFoundError", exit_code |-> 0,
          stderr |-> "denied"]

\* SandboxEngine.run_code, from the call to its return.  The CodeSandboxRun
\* constructor reads artifact_version.artifact.workspace_id before the try
\* block, so a version without artifact raises AttributeError and no row is
\* created.
run_code(artifact_version, outcome) ==
    IF artifact_version.artifact = None
    THEN [raised |-> "AttributeError", run |-> None]
    ELSE [raised |-> None, run |-> finished_run(execute(outcome))]

\* ------------------------------------------------------------------------
\* Initial state
\* ------------------------------------------------------------------------
AuditInit ==
    /\ fs \in {f \in [AllPaths -> Contents \cup {None}] :
                  \A q \in AllPaths : q # <<"a">> => f[q] = None}
    /\ file_audits = <<>>
    /\ file_rollbacks = <<>>
    /\ code_diffs = <<>>
    /\ sandbox_runs = <<>>
    /\ pc = [p \in Procs |-> "idle"]
    /\ args = [p \in Procs |-> NoArgs]
    /\ old_content = [p \in Procs |-> None]
    /\ audit = [p \in Procs |-> 0]
    /\ sandbox_status = [p \in Procs |-> None]
    /\ error = [p \in Procs |-> None]
    /\ pre_fs = [p \in Procs |-> fs]
    /\ pre_rows = [p \in Procs |-> NoRows]
    /\ touched = [p \in Procs |-> <<>>]
    /\ in_flight = [p \in Procs |-> {}]
    /\ calls = 0

\* ------------------------------------------------------------------------
\* AuditEngine.apply_change_with_audit
\* ------------------------------------------------------------------------
\* Entry up to the first commit: validate the path, read the old content,
\* create the FileAudit row in status pending.
apply_change_with_audit(p, is_str, file_path, new_content, run_sandbox, dry_run, outcome) ==
    /\ pc[p] = "idle"
    /\ calls < MaxCalls
    /\ calls' = calls + 1
    /\ args' = [args EXCEPT ![p] =
                  [is_str |-> is_str, file_path |-> file_path,
                   new_content |-> new_content, run_sandbox |-> run_sandbox,
                   dry_run |-> dry_run, outcome |-> outcome]]
    /\ pre_fs' = [pre_fs EXCEPT ![p] = fs]
    /\ pre_rows' = [pre_rows EXCEPT ![p] = Rows]
    /\ touched' = [touched EXCEPT ![p] = <<>>]
    /\ in_flight' = [in_flight EXCEPT
                        ![p] = {q \in Procs : pc[q] = "audit_created"}]
    /\ sandbox_status' = [sandbox_status EXCEPT ![p] = None]
    /\ IF InvalidPath(is_str, file_path)
       THEN /\ pc' = [pc EXCEPT ![p] = "raised"]
            /\ error' = [error EXCEPT ![p] = "ValueError"]
            /\ UNCHANGED <<file_audits, old_content, audit>>
       ELSE /\ old_content' = [old_content EXCEPT ![p] = fs[file_path]]
            /\ file_audits' = Append(file_audits,
                  [file_path |-> file_path, new_content |-> new_content,
                   old_content |-> fs[file_path], audit_status |-> "pending"])
            /\ audit' = [audit EXCEPT ![p] = Len(file_audits) + 1]
            /\ pc' = [pc EXCEPT ![p] = "audit_created"]
            /\ error' = [error EXCEPT ![p] = None]
    /\ UNCHANGED <<fs, file_rollbacks, code_diffs, sandbox_runs>>

\* From the first commit to the return: backup, dry-run exit, write of the
\* new content, sandbox validation, keep or roll back.
apply_change_write(p) ==
    /\ pc[p] = "audit_created"
    /\ LET a == args[p]
           old == old_content[p]
           backup_path == BackupPath(a.file_path)
           has_old == old # None
           fs_backup == backup_old_file(fs, a.file_path, old)
           t_backup == IF has_old THEN <<backup_path>> ELSE <<>>
           fs_new == [fs_backup EXCEPT ![a.file_path] = a.new_content]
           t_new == Append(t_backup, a.file_path)
           sb == run_code(fake_artifact_version(a.new_content), a.outcome)
           setStatus(s) == [file_audits EXCEPT ![audit[p]].audit_status = s]
       IN IF DryRunReturns(a.dry_run)
          THEN /\ fs' = fs_backup
               /\ touched' = [touched EXCEPT ![p] = t_backup]
               /\ file_audits' = setStatus("dry_run")
               /\ pc' = [pc EXCEPT ![p] = "done"]
               /\ UNCHANGED <<file_rollbacks, code_diffs, sandbox_runs,
                              sandbox_status, error>>
          ELSE IF a.run_sandbox /\ sb.raised # None
          THEN \* run_code raised: the exception leaves the engine
               /\ fs' = fs_new
               /\ touched' = [touched EXCEPT ![p] = t_new]
               /\ pc' = [pc EXCEPT ![p] = "raised"]
               /\ error' = [error EXCEPT ![p] = sb.raised]
               /\ UNCHANGED <<file_audits, file_rollbacks, code_diffs,
                              sandbox_runs, sandbox_status>>
          ELSE IF a.run_sandbox /\ sb.run.status # "success"
          THEN \* _run_sandbox_for_file returned False: diff, then _rollback
               /\ sandbox_runs' = Append(sandbox_runs, sb.run)
               /\ sandbox_status' = [sandbox_status EXCEPT
                                        ![p] = sb.run.status]
               /\ code_diffs' = Append(code_diffs,
                     [before |-> IF has_old THEN old ELSE "",
                      after |-> a.new_content])
               /\ fs' = IF has_old
                        THEN [fs_new EXCEPT ![a.file_path] = old]
                        ELSE fs_new
               /\ touched' = [touched EXCEPT ![p] =
                     IF has_old THEN Append(t_new, a.file_path) ELSE t_new]
               /\ file_rollbacks' =
                     IF has_old
                     THEN Append(file_rollbacks,
                            [audit_id |-> audit[p], restored_content |-> old])
                     ELSE file_rollbacks
               /\ file_audits' = setStatus("failed")
               /\ pc' = [pc EXCEPT ![p] = "done"]
               /\ UNCHANGED error
          ELSE \* sandbox_ok: no sandbox requested, or the run succeeded
               /\ fs' = fs_new
               /\ touched' = [touched EXCEPT ![p] = t_new]
               /\ sandbox_runs' = IF a.run_sandbox
                                  THEN Append(sandbox_runs, sb.run)
                                  ELSE sandbox_runs
               /\ sandbox_status' = [sandbox_status EXCEPT ![p] =
                     IF a.run_sandbox THEN sb.run.status ELSE None]
               /\ file_audits' = setStatus("passed")
               /\ pc' = [pc EXCEPT ![p] = "done"]
               /\ UNCHANGED <<file_rollbacks, code_diffs, error>>
    /\ UNCHANGED <<args, old_content, audit, pre_fs, pre_rows, in_flight,
                   calls>>

\* The caller takes the FileAudit (or the exception) and may call again.
apply_change_return(p) ==
    /\ pc[p] \in {"done", "raised"}
    /\ pc' = [pc EXCEPT ![p] = "idle"]
    /\ args' = [args EXCEPT ![p] = NoArgs]
    /\ old_content' = [old_content EXCEPT ![p] = None]
    /\ audit' = [audit EXCEPT ![p] = 0]
    /\ sandbox_status' = [sandbox_status EXCEPT ![p] = None]
    /\ error' = [error EXCEPT ![p] = None]
    /\ pre_fs' = [pre_fs EXCEPT ![p] = fs]
    /\ pre_rows' = [pre_rows EXCEPT ![p] = NoRows]
    /\ touched' = [touched EXCEPT ![p] = <<>>]
    /\ in_flight' = [in_flight EXCEPT ![p] = {}]
    /\ UNCHANGED <<fs, file_audits, file_rollbacks, code_diffs, sandbox_runs,
                   calls>>

\* One invocation at a time: each request is a sequential pipeline.
AuditCall ==
    \E p \in Procs :
        /\ \A q \in Procs : pc[q] = "idle"
        /\ \E is_str \in BOOLEAN, file_path \in StrPaths,
              new_content \in Contents, run_sandbox \in BOOLEAN,
              dry_run \in BOOLEAN, outcome \in Outcomes :
              apply_change_with_audit(p, is_str, file_path, new_content,
                                      run_sandbox, dry_run, outcome)

\* Two requests served by one event loop: a second invocation may start
\* while the first is suspended in its first commit.
AuditCallConcurrent ==
    \E p \in Procs :
        \E is_str \in BOOLEAN, file_path \in StrPaths,
           new_content \in Contents, run_sandbox \in BOOLEAN,
           dry_run \in BOOLEAN, outcome \in Outcomes :
           apply_change_with_audit(p, is_str, file_path, new_content,
                                   run_sandbox, dry_run, outcome)

AuditWrite == \E p \in Procs : apply_change_write(p)

AuditReturn == \E p \in Procs : apply_change_return(p)

AuditNext == AuditCall \/ AuditWrite \/ AuditReturn

\* ------------------------------------------------------------------------
\* Claims about apply_change_with_audit
\* ------------------------------------------------------------------------
Completed(p) == pc[p] \in {"done", "raised"}

ValidPathArg(p) == args[p].is_str /\ strip(args[p].file_path) # <<>>

AuditStatus(p) == IF audit[p] = 0 THEN None
                  ELSE file_audits[audit[p]].audit_status

\* C1: when the target held content C before the call, a call with
\* run_sandbox=true whose sandboxed code fails leaves the target holding
\* exactly C when the call completes.
C1_FailedSandboxRestoresContent ==
    \A p \in Procs :
        (/\ Completed(p)
         /\ ValidPathArg(p)
         /\ args[p].run_sandbox
         /\ ~args[p].dry_run
         /\ args[p].outcome # "exit0"
         /\ pre_fs[p][args[p].file_path] # None)
        => fs[args[p].file_path] = pre_fs[p][args[p].file_path]

\* C2: a call with dry_run=true leaves the target file as it was (absent or
\* with the same content) whatever run_sandbox is, and the FileAudit it
\* returns has status dry_run.
C2_DryRunLeavesTarget ==
    \A p \in Procs :
        (Completed(p) /\ args[p].dry_run)
        => /\ fs[args[p].file_path] = pre_fs[p][args[p].file_path]
           /\ args[p].file_path \notin {touched[p][i] : i \in DOMAIN touched[p]}
           /\ ValidPathArg(p)
              => (pc[p] = "done" /\ AuditStatus(p) = "dry_run")

C2_Witness ==
    \E p \in Procs :
        /\ pc[p] = "done"
        /\ args[p].dry_run
        /\ args[p].run_sandbox
        /\ args[p].outcome = "exit1"
        /\ pre_fs[p][args[p].file_path] \in Contents
        /\ args[p].new_content # pre_fs[p][args[p].file_path]

\* C3: a call with dry_run=true writes no file at all, neither the target
\* nor its .backup sibling, and starts no sandbox run.
C3_DryRunTouchesNoFile ==
    \A p \in Procs :
        (Completed(p) /\ args[p].dry_run)
        => /\ touched[p] = <<>>
           /\ fs = pre_fs[p]
           /\ Len(sandbox_runs) = pre_rows[p].runs

\* C4: a nonzero exit of the sandboxed code is never raised to the caller:
\* the call returns a FileAudit whose audit_status is failed.
C4_ValidationFailureNotRaised ==
    \A p \in Procs :
        (/\ Completed(p)
         /\ ValidPathArg(p)
         /\ args[p].run_sandbox
         /\ ~args[p].dry_run
         /\ args[p].outcome = "exit1")
        => (pc[p] = "done" /\ error[p] = None /\ AuditStatus(p) = "failed")

\* C5: a FileAudit is passed only if a sandbox run of the new content
\* completed with status success, for every combination of parameters.
C5_PassedOnlyAfterSandboxSuccess ==
    \A p \in Procs :
        (Completed(p) /\ AuditStatus(p) = "passed")
        => sandbox_status[p] = "success"

\* C6: a file_path that is empty or only whitespace fails with the
\* invalid-path error before any effect: no FileAudit row, no file or
\* backup written, no sandbox run.
C6_InvalidPathNoEffect ==
    \A p \in Procs :
        (Completed(p) /\ args[p].is_str /\ strip(args[p].file_path) = <<>>)
        => /\ pc[p] = "raised"
           /\ error[p] = "ValueError"
           /\ audit[p] = 0
           /\ Rows = pre_rows[p]
           /\ fs = pre_fs[p]
           /\ touched[p] = <<>>

C6_Witness ==
    \E p \in Procs :
        /\ pc[p] = "raised"
        /\ args[p].is_str
        /\ args[p].file_path = <<WS, WS>>
        /\ ~args[p].dry_run
        /\ Len(file_audits) > 0

\* Positions in touched[p] at which path was opened for writing
WritesTo(p, path) == {i \in DOMAIN touched[p] : touched[p][i] = path}

\* The call asked for sandbox validation of code that fails
SandboxFails(p) ==
    /\ ValidPathArg(p)
    /\ args[p].run_sandbox
    /\ ~args[p].dry_run
    /\ args[p].outcome # "exit0"

\* FileRollback rows of the audit of invocation p
RollbacksOf(p) ==
    {i \in DOMAIN file_rollbacks : file_rollbacks[i].audit_id = audit[p]}

\* C25: when the target has prior content, the .backup sibling holding
\* exactly that content is written before the first write of new content
\* to the target; when the target did not exist, no .backup is created.
C25_BackupBeforeWrite ==
    \A p \in Procs :
        (Completed(p) /\ ValidPathArg(p))
        => LET file_path == args[p].file_path
               backup_path == BackupPath(file_path)
               prior == pre_fs[p][file_path]
           IN IF prior # None
              THEN /\ WritesTo(p, backup_path) # {}
                   /\ \A i \in WritesTo(p, file_path) :
                         \E j \in WritesTo(p, backup_path) : j < i
                   /\ fs[backup_path] = prior
              ELSE /\ WritesTo(p, backup_path) = {}
                   /\ fs[backup_path] = pre_fs[p][backup_path]

C25_Witness ==
    \E p \in Procs :
        /\ Completed(p)
        /\ ValidPathArg(p)
        /\ pre_fs[p][args[p].file_path] = "c0"
        /\ args[p].new_content = "c1"
        /\ touched[p] = <<BackupPath(args[p].file_path), args[p].file_path>>
        /\ fs[args[p].file_path] = "c1"

\* C26: a FileRollback row exists for an audit if and only if its sandbox
\* validation failed and old_content was not null; there is at most one,
\* its restored_content is the audit's old_content, and audits ending in
\* passed or dry_run have none.
C26_RollbackIffFailedWithOld ==
    \A p \in Procs :
        (Completed(p) /\ ValidPathArg(p))
        => /\ Cardinality(RollbacksOf(p)) =
                 IF SandboxFails(p) /\ old_content[p] # None THEN 1 ELSE 0
           /\ \A i \in RollbacksOf(p) :
                 file_rollbacks[i].restored_content = old_content[p]
           /\ AuditStatus(p) \in {"passed", "dry_run"}
              => RollbacksOf(p) = {}

\* C27: when the target did not exist before the call and the sandbox run
\* fails, the call ends with audit_status failed, exactly one CodeDiff row
\* for the change, no FileRollback row, and the target holding the new
\* content.
C27_FailedWithoutPriorVersion ==
    \A p \in Procs :
        (Completed(p) /\ SandboxFails(p)
         /\ pre_fs[p][args[p].file_path] = None)
        => /\ AuditStatus(p) = "failed"
           /\ Len(code_diffs) = pre_rows[p].diffs + 1
           /\ Len(file_rollbacks) = pre_rows[p].rollbacks
           /\ fs[args[p].file_path] = args[p].new_content

\* C28: when two invocations on the same existing file interleave and
\* both sandbox runs fail, the file ends holding the content it had before
\* either invocation started.
C28_InterleavedFailuresRestore ==
    \A p, q \in Procs :
        (/\ q \in in_flight[p]
         /\ Completed(p) /\ Completed(q)
         /\ SandboxFails(p) /\ SandboxFails(q)
         /\ args[p].file_path = args[q].file_path
         /\ pre_fs[q][args[q].file_path] # None)
        => fs[args[q].file_path] = pre_fs[q][args[q].file_path]

\* C29: every invocation that passes path validation ends with its
\* FileAudit in a terminal status (dry_run, passed or failed), never in
\* pending with the new content already written to the target.
C29_AuditEndsTerminal ==
    \A p \in Procs :
        (Completed(p) /\ ValidPathArg(p))
        => AuditStatus(p) \in {"dry_run", "passed", "failed"}

\* ------------------------------------------------------------------------
\* AIRouter
\* ------------------------------------------------------------------------
NoGen == [status |-> "idle", avail |-> <<>>, engine |-> 0, invoked |-> None]

\* self.provider_overrides.get(provider, True)
override_get(overrides, provider) ==
    IF provider \in DOMAIN overrides THEN overrides[provider] ELSE TRUE

\* Results of SELECT ... ORDER BY priority ASC over the rows in S: the rows
\* in ascending priority; the statement gives no order among equal
\* priorities.
OrderByPriority(tbl, S) ==
    {o \in [1..Cardinality(S) -> S] :
        /\ \A i, j \in 1..Cardinality(S) : i # j => o[i] # o[j]
        /\ \A i, j \in 1..Cardinality(S) :
              i < j => tbl[o[i]].priority <= tbl[o[j]].priority}

ApplyOverrides(tbl, overrides, o) ==
    SelectSeq(o, LAMBDA i : override_get(overrides, tbl[i].provider))

\* AIRouter._get_available_engines: the lists it can return
get_available_engines(tbl, overrides) ==
    LET enabled == {i \in DOMAIN tbl : tbl[i].enabled}
        internal == {i \in enabled : tbl[i].provider = "internal"}
    IN {IF ApplyOverrides(tbl, overrides, o) # <<>>
        THEN ApplyOverrides(tbl, overrides, o)
        ELSE o2 : o \in OrderByPriority(tbl, enabled),
                  o2 \in OrderByPriority(tbl, internal)}

\* AIRouter._choose_engine; 0 stands for None
choose_engine(avail) == IF avail # <<>> THEN avail[1] ELSE 0

generate_text_result_DefaultInternal(tbl, avail) ==
    LET engine == choose_engine(avail)
    IN IF engine = 0
       THEN [status |-> "ok", avail |-> avail, engine |-> engine,
             invoked |-> "internal"]
       ELSE IF tbl[engine].provider \notin PROVIDER_REGISTRY
       THEN [status |-> "UnknownProvider", avail |-> avail,
             engine |-> engine, invoked |-> None]
       ELSE [status |-> "ok", avail |-> avail, engine |-> engine,
             invoked |-> tbl[engine].provider]

\* AIRouter.generate_text once the candidate list is known: the error it
\* raises or the provider backend it invokes
generate_text_result(tbl, avail) ==
    LET engine == choose_engine(avail)
    IN IF engine = 0
       THEN [status |-> "NoEngineAvailable", avail |-> avail,
             engine |-> engine, invoked |-> None]
       ELSE IF tbl[engine].provider \notin PROVIDER_REGISTRY
       THEN [status |-> "UnknownProvider", avail |-> avail,
             engine |-> engine, invoked |-> None]
       ELSE [status |-> "ok", avail |-> avail, engine |-> engine,
             invoked |-> tbl[engine].provider]

RouterInit ==
    /\ engines \in UNION {[1..n -> EngineRows] : n \in 0..MaxEngines}
    /\ provider_overrides = [k \in OverrideKeys |-> TRUE]
    /\ gen = NoGen

\* AIRouter.set_provider_enabled
set_provider_enabled(provider, enabled) ==
    /\ gen = NoGen
    /\ provider_overrides' =
          IF provider \in DOMAIN provider_overrides
          THEN [provider_overrides EXCEPT ![provider] = enabled]
          ELSE provider_overrides
    /\ UNCHANGED <<engines, gen>>

\* admin toggle_engine
toggle_engine(engine_id, enabled) ==
    /\ gen = NoGen
    /\ engine_id \in DOMAIN engines
    /\ engines' = [engines EXCEPT ![engine_id].enabled = enabled]
    /\ UNCHANGED <<provider_overrides, gen>>

\* AIRouter.generate_text
generate_text ==
    /\ gen = NoGen
    /\ \E avail \in get_available_engines(engines, provider_overrides) :
          gen' = generate_text_result(engines, avail)
    /\ UNCHANGED <<engines, provider_overrides>>

\* The caller takes the AIResponse (or the exception).
generate_text_return ==
    /\ gen # NoGen
    /\ gen' = NoGen
    /\ UNCHANGED <<engines, provider_overrides>>

SetProviderEnabled ==
    \E provider \in OverrideKeys \cup {"custom"}, enabled \in BOOLEAN :
        set_provider_enabled(provider, enabled)

ToggleEngine ==
    \E engine_id \in 1..MaxEngines, enabled \in BOOLEAN :
        toggle_engine(engine_id, enabled)

RouterNext ==
    \/ SetProviderEnabled
    \/ ToggleEngine
    \/ generate_text
    \/ generate_text_return

\* ------------------------------------------------------------------------
\* Claims about the AIRouter
\* ------------------------------------------------------------------------
Surviving(i) ==
    /\ engines[i].enabled
    /\ override_get(provider_overrides, engines[i].provider)

\* C7: the engine generate_text dispatches to is enabled, its provider is
\* not disabled by an override, no other enabled surviving engine has a
\* strictly lower priority number, and among equal lowest priorities the
\* earliest-created engine is the one chosen.
C7_LowestPrioritySurvivorChosen ==
    gen.engine # 0
    => /\ Surviving(gen.engine)
       /\ \A j \in DOMAIN engines :
             Surviving(j)
             => \/ engines[j].priority > engines[gen.engine].priority
                \/ /\ engines[j].priority = engines[gen.engine].priority
                   /\ gen.engine <= j

\* C8: generate_text never dispatches to an engine whose provider has its
\* kill-switch override set to disabled, also when the internal provider
\* is disabled and every other engine is filtered out.
C8_NoDispatchToDisabledProvider ==
    gen.invoked # None => override_get(provider_overrides, gen.invoked)

\* C9: when no candidate remains after the override filter and the internal
\* fallback, generate_text fails with the no-engine-available error and
\* invokes no provider backend.
C9_NoEngineAvailable ==
    (/\ gen # NoGen
     /\ \A i \in DOMAIN engines :
           engines[i].enabled
           => /\ ~override_get(provider_overrides, engines[i].provider)
              /\ engines[i].provider # "internal")
    => (gen.status = "NoEngineAvailable" /\ gen.invoked = None)

C9_Witness ==
    /\ gen.status = "NoEngineAvailable"
    /\ \E i \in DOMAIN engines :
          engines[i].enabled /\ engines[i].provider = "openai"

\* ------------------------------------------------------------------------
\* FlowEngine
\* ------------------------------------------------------------------------
NoFlow == [id |-> None, steps |-> <<>>]

NoResult == [status |-> None, outputs |-> <<>>, error |-> None]

DictSet_AppendOnly(d, k, v) == Append(d, [key |-> k, value |-> v])

\* d[k] = v on a dict kept as a sequence of items in insertion order
DictSet(d, k, v) ==
    IF \E i \in DOMAIN d : d[i].key = k
    THEN [i \in DOMAIN d |-> IF d[i].key = k THEN [key |-> k, value |-> v]
                             ELSE d[i]]
    ELSE Append(d, [key |-> k, value |-> v])

\* json.loads(ai_output) with the fallback of _extract_ir_and_artifacts;
\* a JSON value that is not an object has no .get and raises
parse_ir(flow_id, step_name, ai_output) ==
    IF ai_output = "json_object"
    THEN [raised |-> None,
          ir |-> [kind |-> "code", title |-> <<"t">>, content |-> "x=1",
                  parse_error |-> FALSE]]
    ELSE IF ai_output = "plain_text"
    THEN [raised |-> None,
          ir |-> [kind |-> "doc", title |-> <<flow_id, step_name>>,
                  content |-> ai_output, parse_error |-> TRUE]]
    ELSE [raised |-> "AttributeError", ir |-> None]

add_artifact_BeforeGeneration(tbl, raised, ir, step_name) ==
    Append(tbl, [artifact_type |-> IF raised # None THEN "doc" ELSE ir.kind,
                 key |-> IF raised # None THEN <<step_name>> ELSE ir.title,
                 step |-> step_name])

add_artifact_ReuseExisting(tbl, raised, ir, step_name) ==
    IF raised # None \/ \E i \in DOMAIN tbl : tbl[i].step = step_name
    THEN tbl
    ELSE Append(tbl, [artifact_type |-> ir.kind, key |-> ir.title,
                      step |-> step_name])

\* The Artifact table after _run_step: the row is added by
\* _extract_ir_and_artifacts, which a step that raised before it (in the
\* generation call or on ir.get) never reaches
add_artifact(tbl, raised, ir, step_name) ==
    IF raised # None THEN tbl
    ELSE Append(tbl, [artifact_type |-> ir.kind, key |-> ir.title,
                      step |-> step_name])

\* str(e) of the exceptions a step can raise, word by word
str_e(raised) ==
    IF raised = "NoEngineAvailable"
    THEN <<"No", "AI", "engines", "are", "enabled", "in", "the", "system.">>
    ELSE IF raised = "UnknownProvider"
    THEN <<"Unknown", "AI", "provider:", "custom">>
    ELSE <<"'list'", "object", "has", "no", "attribute", "'get'">>

FlowInit ==
    /\ flow_runs = <<>>
    /\ artifacts = <<>>
    /\ artifact_versions = <<>>
    /\ flow_pc = "idle"
    /\ flow = NoFlow
    /\ flow_run = 0
    /\ step_idx = 0
    /\ step_outputs = <<>>
    /\ flow_result = NoResult
    /\ started = <<>>
    /\ step_log = <<>>
    /\ runs = 0

\* FlowEngine.run_flow up to the first commit: the FlowRun row is created
run_flow(f) ==
    /\ flow_pc = "idle"
    /\ runs' = runs + 1
    /\ flow' = f
    /\ flow_runs' = Append(flow_runs,
          [flow_id |-> f.id, status |-> "running", output_payload |-> <<>>,
           error_payload |-> <<>>])
    /\ flow_run' = Len(flow_runs) + 1
    /\ step_idx' = 1
    /\ step_outputs' = <<>>
    /\ flow_result' = NoResult
    /\ started' = <<>>
    /\ step_log' = <<>>
    /\ flow_pc' = "loop"
    /\ UNCHANGED <<artifacts, artifact_versions>>

AfterStep_BestEffort(raised) == "loop"

\* Where run_flow is after an iteration: the except branch returns, which
\* ends the loop; otherwise the loop goes on
AfterStep(raised) == IF raised # None THEN "returned" ELSE "loop"

\* One iteration of the loop of run_flow: _run_step and the except branch
run_flow_step(avail, ai_output) ==
    /\ flow_pc = "loop"
    /\ step_idx <= Len(flow.steps)
    /\ LET step_name == flow.steps[step_idx]
           g == generate_text_result(engines, avail)
           parsed == parse_ir(flow.id, step_name, ai_output)
           raised == IF g.status # "ok" THEN g.status ELSE parsed.raised
           artifact_id == Len(artifacts) + 1
           version_id == Len(artifact_versions) + 1
           output == [artifact_id |-> artifact_id,
                      version_id |-> version_id, ir |-> parsed.ir]
       IN /\ started' = Append(started, step_idx)
          /\ step_log' = Append(step_log,
                [ai_output |-> IF g.status = "ok" THEN ai_output ELSE None,
                 raised |-> raised,
                 output |-> IF raised = None THEN output ELSE None])
          /\ step_idx' = step_idx + 1
          /\ flow_pc' = AfterStep(raised)
          /\ artifacts' = add_artifact(artifacts, raised, parsed.ir, step_name)
          /\ IF raised # None
             THEN /\ flow_runs' = [flow_runs EXCEPT ![flow_run] =
                        [@ EXCEPT !.status = "failed",
                                  !.error_payload =
                                     <<[step |-> step_name,
                                        error |-> raised]>>]]
                  /\ flow_result' = [status |-> "failed", outputs |-> <<>>,
                                     error |-> raised]
                  /\ UNCHANGED <<artifact_versions, step_outputs>>
             ELSE /\ artifact_versions' = Append(artifact_versions,
                        [artifact_id |-> artifact_id, version_index |-> 1,
                         content |-> parsed.ir.content,
                         created_by_flow_id |-> flow.id,
                         sandbox_status |-> None])
                  /\ step_outputs' = DictSet(step_outputs, step_name, output)
                  /\ UNCHANGED <<flow_runs, flow_result>>
    /\ UNCHANGED <<flow, flow_run, runs>>

run_flow_success_StillRunning ==
    /\ flow_pc = "loop"
    /\ step_idx > Len(flow.steps)
    /\ flow_result' = [status |-> "success", outputs |-> step_outputs,
                       error |-> None]
    /\ flow_pc' = "returned"
    /\ UNCHANGED <<flow_runs, artifacts, artifact_versions, flow, flow_run,
                   step_idx, step_outputs, started, step_log, runs>>

\* After the loop: the FlowRun becomes success and run_flow returns
run_flow_success ==
    /\ flow_pc = "loop"
    /\ step_idx > Len(flow.steps)
    /\ flow_runs' = [flow_runs EXCEPT ![flow_run] =
          [@ EXCEPT !.status = "success", !.output_payload = step_outputs]]
    /\ flow_result' = [status |-> "success", outputs |-> step_outputs,
                       error |-> None]
    /\ flow_pc' = "returned"
    /\ UNCHANGED <<artifacts, artifact_versions, flow, flow_run, step_idx,
                   step_outputs, started, step_log, runs>>

\* The caller takes the result.
run_flow_return ==
    /\ flow_pc = "returned"
    /\ flow_pc' = "idle"
    /\ flow' = NoFlow
    /\ flow_run' = 0
    /\ step_idx' = 0
    /\ step_outputs' = <<>>
    /\ flow_result' = NoResult
    /\ started' = <<>>
    /\ step_log' = <<>>
    /\ UNCHANGED <<flow_runs, artifacts, artifact_versions, runs>>

RunFlow == runs < MaxRuns /\ \E f \in FlowDefs : run_flow(f)

RunFlowStep ==
    \E avail \in get_available_engines(engines, provider_overrides),
       ai_output \in Responses :
        run_flow_step(avail, ai_output)

FlowNext ==
    \/ RunFlow
    \/ RunFlowStep
    \/ run_flow_success
    \/ run_flow_return

\* ------------------------------------------------------------------------
\* Claims about the FlowEngine
\* ------------------------------------------------------------------------
\* C10: run_flow attempts the steps strictly in declared order and attempts
\* no step after one that raised: the steps started are always 1..k in
\* that order, and as soon as a step has failed run_flow has returned with
\* that step the last one started; a successful run started all N steps.
C10_OrderedFailFast ==
    /\ started = [i \in 1..Len(started) |-> i]
    /\ Len(started) <= Len(flow.steps)
    /\ (flow_run # 0 /\ flow_runs[flow_run].status = "failed")
       => /\ flow_pc = "returned"
          /\ flow_result.status = "failed"
          /\ Len(started) >= 1
          /\ flow_runs[flow_run].error_payload[1].step
                = flow.steps[Len(started)]
    /\ (flow_pc = "returned" /\ flow_result.status = "success")
       => Len(started) = Len(flow.steps)

C10_Witness ==
    /\ flow_pc = "returned"
    /\ flow_result.status = "failed"
    /\ Len(flow.steps) = 2
    /\ started = <<1>>

\* C11: when step k of a flow fails, the persisted FlowRun holds in
\* output_payload the outputs of steps 1..k-1, and only those, and its
\* error_payload names step k.
C11_FailedRunKeepsPriorOutputs ==
    (flow_run # 0 /\ flow_runs[flow_run].status = "failed")
    => LET k == Len(started)
           payload == flow_runs[flow_run].output_payload
       IN /\ k >= 1
          /\ flow_runs[flow_run].error_payload[1].step = flow.steps[k]
          /\ payload = step_outputs
          /\ \A i \in 1..(k - 1) :
                \E j \in DOMAIN payload : payload[j].key = flow.steps[i]
          /\ \A j \in DOMAIN payload :
                \E i \in 1..(k - 1) : payload[j].key = flow.steps[i]

\* The FlowRun rows that existed before a step are still there after it
SameRows == Len(flow_runs') >= Len(flow_runs)

RECURSIVE FirstOccurrences(_)
FirstOccurrences(seq) ==
    IF seq = <<>> THEN <<>>
    ELSE LET init == FirstOccurrences(SubSeq(seq, 1, Len(seq) - 1))
             last == seq[Len(seq)]
         IN IF \E i \in DOMAIN init : init[i] = last THEN init
            ELSE Append(init, last)

\* The last position of x in a sequence that holds it
LastIndexOf(seq, x) ==
    CHOOSE i \in DOMAIN seq :
        seq[i] = x /\ \A j \in DOMAIN seq : j > i => seq[j] # x

C14_MalformedGenerationNeverFails ==
    \A i \in DOMAIN step_log :
        step_log[i].ai_output \in Responses
        => /\ step_log[i].raised = None
           /\ step_log[i].ai_output \in {"plain_text", "json_array"}
              => /\ step_log[i].output.ir.kind = "doc"
                 /\ step_log[i].output.ir.parse_error
                 /\ step_log[i].output.ir.content = step_log[i].ai_output

\* One step of the model adds one Artifact row exactly when it is a
\* _run_step call that completed without error
ArtifactPerCompletedStep ==
    Len(artifacts') - Len(artifacts) =
        IF Len(step_log') = Len(step_log) + 1
           /\ step_log'[Len(step_log')].raised = None
        THEN 1 ELSE 0

\* run_flow has returned a failed result
FailedRun == flow_pc = "returned" /\ flow_result.status = "failed"

\* The words of seq
Words(seq) == {seq[i] : i \in DOMAIN seq}

EarlierVersionsOfKey(v) ==
    {w \in DOMAIN artifact_versions :
        /\ w < v
        /\ artifacts[artifact_versions[w].artifact_id].key =
           artifacts[artifact_versions[v].artifact_id].key}

\* C30: every record materialized by a flow step gets version_index =
\* (highest version_index of its artifact key) + 1, starting at 1: a
\* second generation for an existing key adds the next version to the
\* existing artifact, not a second artifact or another version 1.
C30_VersionIndexIncrements ==
    /\ \A i, j \in DOMAIN artifacts :
          artifacts[i].key = artifacts[j].key => i = j
    /\ \A v \in DOMAIN artifact_versions :
          artifact_versions[v].version_index =
             Cardinality(EarlierVersionsOfKey(v)) + 1

\* ------------------------------------------------------------------------
\* RuntimeEngine
\* ------------------------------------------------------------------------
NoRtArgs == [workspace_id |-> None, flow_key |-> None]

NoFlowRow == [id |-> None, workspace_id |-> None, key |-> None,
              steps |-> <<>>]

NoRtResult == [status |-> None, attempts |-> 0, outputs |-> <<>>,
               error |-> None]

get_flow_definition_AnyWorkspace(tbl, workspace_id, flow_key) ==
    {i \in DOMAIN tbl : tbl[i].key = flow_key}

\* The rows the query of _get_flow_definition selects
get_flow_definition(tbl, workspace_id, flow_key) ==
    {i \in DOMAIN tbl :
        tbl[i].workspace_id = workspace_id /\ tbl[i].key = flow_key}

RetryLoopContinues_OffByOne(a, r) == a <= r + 1

\* while attempt <= self.max_retries
RetryLoopContinues(a, r) == a <= r

AfterAttempt_KeepsTrying(status) == "loop"

\* Where run_flow_by_key is after an attempt: a success returns, anything
\* else goes back to the loop test
AfterAttempt(status) == IF status = "success" THEN "returned" ELSE "loop"

\* last_error or "Unknown error"
ErrorOrUnknown(e) == IF e = None THEN "Unknown error" ELSE e

RuntimeInit ==
    /\ flow_definitions = FlowDefinitionRows
    /\ max_retries \in 0..MaxRetries
    /\ rt_pc = "idle"
    /\ rt_args = NoRtArgs
    /\ rt_flow = NoFlowRow
    /\ attempt = 0
    /\ last_error = None
    /\ rt_result = NoRtResult
    /\ rt_error = None
    /\ attempt_log = <<>>

\* run_flow_by_key up to the loop: the lookup, which raises when no row
\* matches; first() without ORDER BY takes any of the matching rows
run_flow_by_key(workspace_id, flow_key) ==
    /\ rt_pc = "idle"
    /\ rt_args' = [workspace_id |-> workspace_id, flow_key |-> flow_key]
    /\ LET found == get_flow_definition(flow_definitions, workspace_id,
                                         flow_key)
       IN IF found = {}
          THEN /\ rt_error' = "RuntimeError"
               /\ rt_pc' = "raised"
               /\ UNCHANGED rt_flow
          ELSE /\ \E i \in found : rt_flow' = flow_definitions[i]
               /\ rt_pc' = "loop"
               /\ UNCHANGED rt_error
    /\ attempt' = 0
    /\ last_error' = None
    /\ UNCHANGED <<flow_definitions, max_retries, rt_result, attempt_log>>
    /\ UNCHANGED flow_vars

\* The loop test holds: attempt += 1 and run_flow is called
run_flow_by_key_attempt ==
    /\ rt_pc = "loop"
    /\ RetryLoopContinues(attempt, max_retries)
    /\ attempt' = attempt + 1
    /\ run_flow([id |-> rt_flow.id, steps |-> rt_flow.steps])
    /\ rt_pc' = "attempting"
    /\ UNCHANGED <<flow_definitions, max_retries, rt_args, rt_flow,
                   last_error, rt_result, rt_error, attempt_log>>

\* run_flow has returned: a success is returned at once, a failure is
\* kept in last_error
run_flow_by_key_result ==
    /\ rt_pc = "attempting"
    /\ run_flow_return
    /\ attempt_log' = Append(attempt_log,
          [status |-> flow_result.status, outputs |-> flow_result.outputs,
           error |-> flow_result.error, flow_run |-> flow_run])
    /\ rt_pc' = AfterAttempt(flow_result.status)
    /\ IF AfterAttempt(flow_result.status) = "returned"
       THEN /\ rt_result' = [status |-> "success", attempts |-> attempt,
                             outputs |-> flow_result.outputs,
                             error |-> None]
            /\ UNCHANGED last_error
       ELSE /\ last_error' = flow_result.error
            /\ UNCHANGED rt_result
    /\ UNCHANGED <<flow_definitions, max_retries, rt_args, rt_flow, attempt,
                   rt_error>>

\* The loop test fails: the failed result is returned
run_flow_by_key_exhausted ==
    /\ rt_pc = "loop"
    /\ ~RetryLoopContinues(attempt, max_retries)
    /\ rt_result' = [status |-> "failed", attempts |-> attempt,
                     outputs |-> <<>>, error |-> ErrorOrUnknown(last_error)]
    /\ rt_pc' = "returned"
    /\ UNCHANGED <<flow_definitions, max_retries, rt_args, rt_flow, attempt,
                   last_error, rt_error, attempt_log>>
    /\ UNCHANGED flow_vars

RunFlowByKey ==
    \E workspace_id \in Workspaces, flow_key \in FlowKeys :
        run_flow_by_key(workspace_id, flow_key)

\* One run_flow_by_key invocation and the run_flow calls it makes
RuntimeNext ==
    \/ RunFlowByKey
    \/ run_flow_by_key_attempt
    \/ (RunFlowStep \/ run_flow_success) /\ UNCHANGED runtime_vars
    \/ run_flow_by_key_result
    \/ run_flow_by_key_exhausted

\* ------------------------------------------------------------------------
\* Claims about the RuntimeEngine
\* ------------------------------------------------------------------------
\* C15: run_flow_by_key with max_retries = R calls run_flow at most R+1
\* times, and the attempts it returns, with success and with failed alike,
\* is the number of run_flow calls it made.
C15_AttemptsBoundedAndAccurate ==
    /\ runs <= max_retries + 1
    /\ rt_pc = "returned"
       => /\ rt_result.status \in {"success", "failed"}
          /\ rt_result.attempts = runs
          /\ rt_result.attempts <= max_retries + 1

C15_Witness ==
    /\ rt_pc = "returned"
    /\ rt_result.status = "failed"
    /\ max_retries = 1
    /\ rt_result.attempts = 2

\* C16: the first attempt that returns success ends the call: it is the
\* last run_flow call, every earlier one failed, and the outputs returned
\* are its outputs; failed is returned only after max_retries+1 attempts
\* that all failed.
C16_FirstSuccessReturns ==
    /\ \A i \in DOMAIN attempt_log :
          attempt_log[i].status = "success"
          => /\ i = Len(attempt_log)
             /\ runs = i
             /\ rt_pc = "returned"
             /\ rt_result.status = "success"
             /\ rt_result.outputs = attempt_log[i].outputs
             /\ attempt_log[i].flow_run = Len(flow_runs)
             /\ flow_runs[Len(flow_runs)].status = "success"
    /\ (rt_pc = "returned" /\ rt_result.status = "success")
       => /\ attempt_log # <<>>
          /\ attempt_log[Len(attempt_log)].status = "success"
    /\ (rt_pc = "returned" /\ rt_result.status = "failed")
       => /\ Len(attempt_log) = max_retries + 1
          /\ \A i \in DOMAIN attempt_log : attempt_log[i].status = "failed"

C16_Witness ==
    /\ rt_pc = "returned"
    /\ rt_result.status = "success"
    /\ rt_result.attempts = 2
    /\ attempt_log[1].status = "failed"

ConfigurationErrors == {"NoEngineAvailable", "UnknownProvider"}

\* C17: when a flow attempt fails because no engine is available or the
\* chosen provider is unknown, no further attempt is made and the error
\* is what the caller gets.
C17_ConfigurationErrorNotRetried ==
    \A i \in DOMAIN attempt_log :
        attempt_log[i].error \in ConfigurationErrors
        => /\ runs = i
           /\ rt_pc = "returned"
              => /\ rt_result.status = "failed"
                 /\ rt_result.error = attempt_log[i].error

\* C18: when no FlowDefinition has the key in the workspace,
\* run_flow_by_key raises the not-found RuntimeError, and has called
\* run_flow zero times and created no FlowRun.
C18_FlowNotFound ==
    LET missing == \A i \in DOMAIN flow_definitions :
                      \/ flow_definitions[i].workspace_id
                            # rt_args.workspace_id
                      \/ flow_definitions[i].key # rt_args.flow_key
    IN /\ (rt_pc # "idle" /\ missing)
          => /\ rt_pc = "raised"
             /\ rt_error = "RuntimeError"
             /\ runs = 0
             /\ attempt_log = <<>>
             /\ flow_runs = <<>>
       /\ rt_pc = "raised" => missing

C18_Witness ==
    /\ rt_pc = "raised"
    /\ rt_args = [workspace_id |-> "w2", flow_key |-> "k2"]

\* The Artifact rows that existed before a step are unchanged after it
ArtifactsKept ==
    /\ Len(artifacts') >= Len(artifacts)
    /\ \A i \in DOMAIN artifacts : artifacts'[i] = artifacts[i]

Text(str) ==
    IF str = "A:b" THEN <<"A", ":", "b">>
    ELSE IF str = "b:c" THEN <<"b", ":", "c">>
    ELSE IF str = "" THEN <<>>
    ELSE <<str>>

\* hashlib.sha256(f"{error_class}:{error_message}"): one digest per text,
\* the text being the two strings joined by a colon
hash_error(error_class, error_message) ==
    Text(error_class) \o <<":">> \o Text(error_message)

\* x or fallback, for a nullable string column
OrElse(x, fallback) == IF x = None \/ x = "" THEN fallback ELSE x

\* _record_error_pattern: a new row unless the signature is known
record_error_pattern_NoDedup(tbl, run) ==
    LET error_class == OrElse(run.error_class, "UnknownError")
        signature == hash_error(error_class, OrElse(run.error_message, ""))
    IN Append(tbl, [error_class |-> error_class, signature |-> signature])

record_error_pattern(tbl, run) ==
    LET error_class == OrElse(run.error_class, "UnknownError")
        signature == hash_error(error_class, OrElse(run.error_message, ""))
    IN IF \E i \in DOMAIN tbl : tbl[i].signature = signature
       THEN tbl
       ELSE Append(tbl, [error_class |-> error_class,
                         signature |-> signature])

\* _update_engine_performance: run_code never fills error_metadata, so the
\* row is the one of provider "unknown", model "unknown"
update_engine_performance(tbl, run) ==
    LET failures == IF run.status = "failed" THEN 1 ELSE 0
    IN IF \E i \in DOMAIN tbl : tbl[i].provider = "unknown"
       THEN [i \in DOMAIN tbl |->
               IF tbl[i].provider = "unknown"
                  /\ \A j \in 1..(i - 1) : tbl[j].provider # "unknown"
               THEN [tbl[i] EXCEPT !.total_calls = @ + 1,
                                   !.total_failures = @ + failures]
               ELSE tbl[i]]
       ELSE Append(tbl, [provider |-> "unknown", model |-> "unknown",
                         total_calls |-> 1, total_failures |-> failures])

update_workspace_analytics_NewRowZero(tbl, workspace_id) ==
    IF \E i \in DOMAIN tbl : tbl[i].workspace_id = workspace_id
    THEN [i \in DOMAIN tbl |->
            IF tbl[i].workspace_id = workspace_id
               /\ \A j \in 1..(i - 1) : tbl[j].workspace_id # workspace_id
            THEN [tbl[i] EXCEPT !.total_errors = @ + 1]
            ELSE tbl[i]]
    ELSE Append(tbl, [workspace_id |-> workspace_id, total_errors |-> 0])

\* _update_workspace_analytics: total_errors += 1 on the workspace's row
update_workspace_analytics(tbl, workspace_id) ==
    IF \E i \in DOMAIN tbl : tbl[i].workspace_id = workspace_id
    THEN [i \in DOMAIN tbl |->
            IF tbl[i].workspace_id = workspace_id
               /\ \A j \in 1..(i - 1) : tbl[j].workspace_id # workspace_id
            THEN [tbl[i] EXCEPT !.total_errors = @ + 1]
            ELSE tbl[i]]
    ELSE Append(tbl, [workspace_id |-> workspace_id, total_errors |-> 1])

NoExec == [raises |-> None, exit_code |-> 0, stderr |-> None]

SandboxInit ==
    /\ sb_pc = "idle"
    /\ sb_version = 0
    /\ sb_run = 0
    /\ sb_exec = NoExec
    /\ sb_calls = 0
    /\ learned = <<>>
    /\ error_patterns = <<>>
    /\ engine_performance = <<>>
    /\ workspace_analytics = <<>>

\* run_code up to its first commit: the CodeSandboxRun row, status running
sandbox_run_code(v, language, command) ==
    /\ sb_pc = "idle"
    /\ sb_calls < MaxSandboxCalls
    /\ sb_calls' = sb_calls + 1
    /\ sb_version' = v
    /\ sandbox_runs' = Append(sandbox_runs,
          [artifact_version_id |-> v,
           workspace_id |-> artifacts[artifact_versions[v].artifact_id]
                               .workspace_id,
           environment |-> language,
           command |-> IF command = None THEN "" ELSE command,
           status |-> "running", exit_code |-> NoInt, stderr |-> None,
           error_class |-> None, error_message |-> None])
    /\ sb_run' = Len(sandbox_runs) + 1
    /\ sb_pc' = "running"
    /\ UNCHANGED <<sb_exec, learned, error_patterns, engine_performance,
                   workspace_analytics, artifact_versions>>

\* The try/except around _execute and the commit after it
sandbox_execute(x) ==
    /\ sb_pc = "running"
    /\ LET r == finished_run(x)
       IN /\ sandbox_runs' = [sandbox_runs EXCEPT ![sb_run] =
                [@ EXCEPT !.status = r.status, !.exit_code = r.exit_code,
                          !.stderr = r.stderr,
                          !.error_class = r.error_class,
                          !.error_message = r.error_message]]
          /\ artifact_versions' = [artifact_versions EXCEPT
                ![sb_version].sandbox_status = r.sandbox_status]
    /\ sb_pc' = "finished"
    /\ sb_exec' = x
    /\ UNCHANGED <<sb_version, sb_run, sb_calls, learned, error_patterns,
                   engine_performance, workspace_analytics>>

learn_from_sandbox_FailuresOnly ==
    /\ sb_pc = "finished"
    /\ LET run == sandbox_runs[sb_run]
       IN IF run.status = "failed"
          THEN /\ learned' = Append(learned,
                     [run |-> sb_run, status |-> run.status])
               /\ error_patterns' = record_error_pattern(error_patterns, run)
               /\ engine_performance'
                     = update_engine_performance(engine_performance, run)
               /\ workspace_analytics'
                     = update_workspace_analytics(workspace_analytics,
                                                  run.workspace_id)
          ELSE UNCHANGED <<learned, error_patterns, engine_performance,
                           workspace_analytics>>
    /\ sb_pc' = "returned"
    /\ UNCHANGED <<sb_version, sb_run, sb_exec, sb_calls, sandbox_runs,
                   artifact_versions>>

\* await self.teacher.learn_from_sandbox(sandbox_run)
learn_from_sandbox ==
    /\ sb_pc = "finished"
    /\ LET run == sandbox_runs[sb_run]
       IN /\ learned' = Append(learned,
                [run |-> sb_run, status |-> run.status])
          /\ error_patterns' = IF run.status = "failed"
                               THEN record_error_pattern(error_patterns, run)
                               ELSE error_patterns
          /\ engine_performance'
                = update_engine_performance(engine_performance, run)
          /\ workspace_analytics'
                = update_workspace_analytics(workspace_analytics,
                                             run.workspace_id)
    /\ sb_pc' = "returned"
    /\ UNCHANGED <<sb_version, sb_run, sb_exec, sb_calls, sandbox_runs,
                   artifact_versions>>

\* The caller takes the CodeSandboxRun.
sandbox_return ==
    /\ sb_pc = "returned"
    /\ sb_pc' = "idle"
    /\ sb_version' = 0
    /\ sb_run' = 0
    /\ sb_exec' = NoExec
    /\ UNCHANGED <<sb_calls, learned, error_patterns, engine_performance,
                   workspace_analytics, sandbox_runs, artifact_versions>>

\* ------------------------------------------------------------------------
\* TeachingEngine.learn_from_sandbox called by concurrent requests
\* ------------------------------------------------------------------------
NoRun == [status |-> None, workspace_id |-> None, error_class |-> None,
          error_message |-> None]

\* The SELECT of _record_error_pattern: whether a row has the signature
find_error_pattern(tbl, run) ==
    LET error_class == OrElse(run.error_class, "UnknownError")
        signature == hash_error(error_class, OrElse(run.error_message, ""))
    IN \E i \in DOMAIN tbl : tbl[i].signature = signature

\* The rest of _record_error_pattern: a new row unless the lookup found one
add_error_pattern(tbl, existing, run) ==
    LET error_class == OrElse(run.error_class, "UnknownError")
        signature == hash_error(error_class, OrElse(run.error_message, ""))
    IN IF existing THEN tbl
       ELSE Append(tbl, [error_class |-> error_class,
                         signature |-> signature])

\* learn_from_sandbox up to the first suspension point: for a failed run
\* the lookup of _record_error_pattern
learn_lookup(p, run) ==
    /\ tl_pc[p] = "idle"
    /\ tl_run' = [tl_run EXCEPT ![p] = run]
    /\ IF run.status = "failed"
       THEN /\ tl_existing' = [tl_existing EXCEPT
                                 ![p] = find_error_pattern(error_patterns, run)]
            /\ tl_pc' = [tl_pc EXCEPT ![p] = "looked_up"]
       ELSE /\ tl_pc' = [tl_pc EXCEPT ![p] = "recorded"]
            /\ UNCHANGED tl_existing
    /\ UNCHANGED <<error_patterns, engine_performance, workspace_analytics>>

\* The lookup has answered: the new ErrorPattern is added and committed
learn_record(p) ==
    /\ tl_pc[p] = "looked_up"
    /\ error_patterns' = add_error_pattern(error_patterns, tl_existing[p],
                                           tl_run[p])
    /\ tl_pc' = [tl_pc EXCEPT ![p] = "recorded"]
    /\ UNCHANGED <<tl_run, tl_existing, engine_performance,
                   workspace_analytics>>

\* _update_engine_performance and _update_workspace_analytics, taken as
\* one step each call
learn_update(p) ==
    /\ tl_pc[p] = "recorded"
    /\ engine_performance'
          = update_engine_performance(engine_performance, tl_run[p])
    /\ workspace_analytics'
          = update_workspace_analytics(workspace_analytics,
                                       tl_run[p].workspace_id)
    /\ tl_pc' = [tl_pc EXCEPT ![p] = "done"]
    /\ UNCHANGED <<tl_run, tl_existing, error_patterns>>

LearnLookup == \E p \in Procs, run \in LearnableRuns : learn_lookup(p, run)

LearnRecord == \E p \in Procs : learn_record(p)

LearnUpdate == \E p \in Procs : learn_update(p)

\* Each request learns one run
LearnNext == LearnLookup \/ LearnRecord \/ LearnUpdate

LearnQuiet ==
    /\ tl_pc = [p \in Procs |-> "idle"]
    /\ tl_run = [p \in Procs |-> NoRun]
    /\ tl_existing = [p \in Procs |-> FALSE]

SandboxRunCode ==
    \E v \in DOMAIN artifact_versions, language \in Languages,
       command \in Commands :
        sandbox_run_code(v, language, command)

SandboxExecute == \E x \in ExitResults \cup RaiseResults : sandbox_execute(x)

SandboxNext ==
    \/ SandboxRunCode
    \/ SandboxExecute
    \/ learn_from_sandbox
    \/ sandbox_return

\* ------------------------------------------------------------------------
\* Claims about the SandboxEngine
\* ------------------------------------------------------------------------
\* The direct run_code invocation has passed its second commit
Finished == sb_pc \in {"finished", "returned"}

\* C19: a run whose command exited is classified by the exit code alone:
\* 0 gives status success and sandbox_status passed; any other exit code
\* gives status failed, sandbox_status failed, error_class RuntimeError
\* and error_message the captured stderr, or "Unknown error" when stderr
\* is empty.
C19_ClassifiedByExitCode ==
    (Finished /\ sb_exec.raises = None)
    => LET run == sandbox_runs[sb_run]
           version == artifact_versions[sb_version]
       IN /\ run.exit_code = Some(sb_exec.exit_code)
          /\ sb_exec.exit_code = 0
             => /\ run.status = "success"
                /\ version.sandbox_status = "passed"
                /\ run.error_class = None
          /\ sb_exec.exit_code # 0
             => /\ run.status = "failed"
                /\ version.sandbox_status = "failed"
                /\ run.error_class = "RuntimeError"
                /\ sb_exec.stderr # ""
                   => run.error_message = sb_exec.stderr
                /\ sb_exec.stderr = ""
                   => run.error_message = "Unknown error"

C19_Witness ==
    /\ Finished
    /\ sb_exec = [raises |-> None, exit_code |-> 2, stderr |-> ""]
    /\ \E i \in DOMAIN sandbox_runs :
          /\ sandbox_runs[i].exit_code = Some(0)
          /\ sandbox_runs[i].stderr = "boom"
          /\ sandbox_runs[i].status = "success"

\* C20: an exception raised while the code is executed is caught: the
\* run ends failed with error_class the class of the exception, the
\* version's sandbox_status is failed, and run_code goes on to hand the
\* run to the caller.
C20_ExecutionExceptionCaught ==
    /\ (Finished /\ sb_exec.raises # None)
       => /\ sandbox_runs[sb_run].status = "failed"
          /\ sandbox_runs[sb_run].error_class = sb_exec.raises
          /\ sandbox_runs[sb_run].exit_code = NoInt
          /\ artifact_versions[sb_version].sandbox_status = "failed"
    /\ sb_exec # NoExec => Finished

C20_Witness ==
    /\ sb_pc = "returned"
    /\ sb_exec.raises = "PermissionError"
    /\ sandbox_runs[sb_run].error_class = "PermissionError"

\* The positions of learned that hold run r
LearnedAt(r) == {i \in DOMAIN learned : learned[i].run = r}

PatternsOf(sig) ==
    {i \in DOMAIN error_patterns : error_patterns[i].signature = sig}

\* The signature _record_error_pattern computes for a run
SignatureOf(run) ==
    hash_error(OrElse(run.error_class, "UnknownError"),
               OrElse(run.error_message, ""))

\* C24: however many failed runs carry the same (error_class,
\* error_message) pair, the table holds exactly one ErrorPattern row with
\* the signature of that pair: learning from a failed run adds a row when
\* the signature is new and adds none when it is known.
C24_OnePatternPerSignature ==
    /\ [](\A i \in DOMAIN learned :
             learned[i].status = "failed"
             => Cardinality(PatternsOf(
                   SignatureOf(sandbox_runs[learned[i].run]))) = 1)
    /\ [][Len(learned') > Len(learned)
          => LET run == sandbox_runs[sb_run]
             IN Len(error_patterns') - Len(error_patterns)
                  = IF run.status = "failed"
                       /\ PatternsOf(SignatureOf(run)) = {}
                    THEN 1 ELSE 0]_vars

C24_Witness ==
    /\ Len(learned) = 2
    /\ learned[1].status = "failed"
    /\ learned[2].status = "failed"
    /\ SignatureOf(sandbox_runs[1]) = SignatureOf(sandbox_runs[2])
    /\ Len(error_patterns) = 1

\* ------------------------------------------------------------------------
\* Rule-level AuditEngine and AuditActionExecutor
\* ------------------------------------------------------------------------
\* bool(v) is false: a missing entry (None) or an empty container
Falsy(v) == v \in {"absent", "empty_list"}

NoResultOf(target) == [target |-> target, issues |-> <<>>, actions |-> <<>>]

\* FlowDefinitionRule.evaluate
flow_definition_rule(target) ==
    LET definition == IF Falsy(target.definition) THEN "dict"
                      ELSE target.definition
    IN [raised |-> None,
        result |-> IF definition # "dict"
                   THEN [target |-> target,
                         issues |-> <<[severity |-> "error",
                                       code |-> "FLOW_INVALID_DEFINITION_TYPE"]>>,
                         actions |-> <<[type |-> "suggest_change",
                                        path |-> <<>>, content |-> None]>>]
                   ELSE NoResultOf(target)]

\* PresetStructureRule.evaluate: `k not in preset` raises on an int
preset_structure_rule(target) ==
    LET preset == IF Falsy(target.preset) THEN "empty_dict" ELSE target.preset
    IN IF preset = "int"
       THEN [raised |-> "TypeError", result |-> NoResultOf(target)]
       ELSE [raised |-> None,
             result |-> IF preset # "full"
                        THEN [target |-> target,
                              issues |-> <<[severity |-> "error",
                                            code |-> "PRESET_MISSING_KEYS"]>>,
                              actions |-> <<[type |-> "suggest_change",
                                             path |-> <<>>,
                                             content |-> None]>>]
                        ELSE NoResultOf(target)]

\* A caller's rule: no issue, one action of its type on file "a"
fix_rule(rule, target) ==
    [raised |-> None,
     result |-> [target |-> target, issues |-> <<>>,
                 actions |-> <<[type |-> rule.action_type, path |-> <<"a">>,
                                content |-> "c1"]>>]]

\* rule.evaluate(target, trace_id=trace_id)
evaluate(rule, target) ==
    IF rule.name = "flow_definition_rule" THEN flow_definition_rule(target)
    ELSE IF rule.name = "preset_structure_rule"
    THEN preset_structure_rule(target)
    ELSE fix_rule(rule, target)

\* default_rules()
default_rules ==
    <<[name |-> "flow_definition_rule", action_type |-> "noop"],
      [name |-> "preset_structure_rule", action_type |-> "noop"]>>

NonEmpty_IssuesOnly(result) == result.issues # <<>>

\* if rule_result.issues or rule_result.actions
NonEmpty(result) == result.issues # <<>> \/ result.actions # <<>>

DefaultDryRun_False == FALSE

\* dry_run: bool = True
DefaultDryRun == TRUE

\* apply_fixes: bool = False
DefaultApplyFixes == FALSE

\* The value a parameter has in the body
ArgValue(arg, default) == IF arg.given THEN arg.value ELSE default

apply_single_action_DryRunCreates(st, action, dry_run) ==
    IF action.type = "create_file"
    THEN [st EXCEPT !.fs[action.path] = action.content]
    ELSE IF dry_run THEN st
    ELSE IF action.type = "update_file"
    THEN [st EXCEPT !.fs =
            [q \in DOMAIN st.fs |->
               IF q = action.path THEN action.content
               ELSE IF q = BackupPath(action.path)
                       /\ st.fs[action.path] # None
               THEN st.fs[action.path]
               ELSE st.fs[q]]]
    ELSE IF action.type = "delete_file"
    THEN [st EXCEPT !.fs[action.path] = None]
    ELSE IF action.type = "update_db" /\ st.db
    THEN [st EXCEPT !.commits = @ + 1]
    ELSE st

apply_single_action_BackupAfterWrite(st, action, dry_run) ==
    IF dry_run THEN st
    ELSE IF action.type = "create_file"
    THEN [st EXCEPT !.fs[action.path] = action.content]
    ELSE IF action.type = "update_file"
    THEN [st EXCEPT !.fs =
            [q \in DOMAIN st.fs |->
               IF q = action.path THEN action.content
               ELSE IF q = BackupPath(action.path)
                       /\ st.fs[action.path] # None
               THEN action.content
               ELSE st.fs[q]]]
    ELSE IF action.type = "delete_file"
    THEN [st EXCEPT !.fs[action.path] = None]
    ELSE IF action.type = "update_db" /\ st.db
    THEN [st EXCEPT !.commits = @ + 1]
    ELSE st

\* _apply_single_action on file system and commit count st
apply_single_action(st, action, dry_run) ==
    IF dry_run THEN st
    ELSE IF action.type = "create_file"
    THEN [st EXCEPT !.fs[action.path] = action.content]
    ELSE IF action.type = "update_file"
    THEN [st EXCEPT !.fs =
            [q \in DOMAIN st.fs |->
               IF q = action.path THEN action.content
               ELSE IF q = BackupPath(action.path)
                       /\ st.fs[action.path] # None
               THEN st.fs[action.path]
               ELSE st.fs[q]]]
    ELSE IF action.type = "delete_file"
    THEN [st EXCEPT !.fs[action.path] = None]
    ELSE IF action.type = "update_db" /\ st.db
    THEN [st EXCEPT !.commits = @ + 1]
    ELSE st

\* All actions of the results, in the order apply_actions visits them
RECURSIVE AllActions(_)
AllActions(rs) ==
    IF rs = <<>> THEN <<>> ELSE Head(rs).actions \o AllActions(Tail(rs))

\* The loops of apply_actions over a list of actions
RECURSIVE apply_actions(_, _, _)
apply_actions(st, actions, dry_run) ==
    IF actions = <<>> THEN st
    ELSE apply_actions(apply_single_action(st, Head(actions), dry_run),
                       Tail(actions), dry_run)

NoRaArgs == [targets |-> <<>>,
             apply_fixes |-> [given |-> FALSE, value |-> FALSE],
             dry_run |-> [given |-> FALSE, value |-> FALSE]]

RuleQuiet ==
    /\ rules = default_rules
    /\ db = FALSE
    /\ ra_pc = "idle"
    /\ ra_args = NoRaArgs
    /\ ra_target = 0
    /\ ra_rule = 0
    /\ results = <<>>
    /\ report = <<>>
    /\ evaluated = <<>>
    /\ apply_calls = <<>>
    /\ db_commits = 0
    /\ ra_pre_fs = fs

\* AuditEngine(db, rules): the default rules, or the flow rule and one of
\* the caller's rules
RuleInit ==
    /\ rules \in {default_rules}
                \cup {<<default_rules[1], r>> :
                        r \in [name : {"fix_rule"},
                               action_type : FileActionTypes]}
    /\ db \in BOOLEAN
    /\ ra_pc = "idle"
    /\ ra_args = NoRaArgs
    /\ ra_target = 0
    /\ ra_rule = 0
    /\ results = <<>>
    /\ report = <<>>
    /\ evaluated = <<>>
    /\ apply_calls = <<>>
    /\ db_commits = 0
    /\ ra_pre_fs = fs

\* audit_targets is called
audit_targets(targets, apply_fixes, dry_run) ==
    /\ ra_pc = "idle"
    /\ ra_args' = [targets |-> targets, apply_fixes |-> apply_fixes,
                   dry_run |-> dry_run]
    /\ results' = <<>>
    /\ ra_target' = 1
    /\ ra_rule' = 1
    /\ ra_pc' = "rules"
    /\ ra_pre_fs' = fs
    /\ UNCHANGED <<rules, db, report, evaluated, apply_calls, db_commits, fs>>

AfterRule_AbortOnError(raised) == IF raised # None THEN "raised" ELSE "rules"

\* Where audit_targets is after rule.evaluate: the except branch logs and
\* the loops go on
AfterRule(raised) == "rules"

\* One iteration of the inner loop: rule.evaluate and the except branch
audit_targets_rule ==
    /\ ra_pc = "rules"
    /\ ra_target <= Len(ra_args.targets)
    /\ rules # <<>>
    /\ LET target == ra_args.targets[ra_target]
           rule == rules[ra_rule]
           e == evaluate(rule, target)
       IN /\ evaluated' = Append(evaluated,
                [target |-> ra_target, rule |-> ra_rule,
                 raised |-> e.raised, result |-> e.result])
          /\ results' = IF e.raised = None /\ NonEmpty(e.result)
                        THEN Append(results, e.result) ELSE results
          /\ ra_pc' = AfterRule(e.raised)
    /\ IF ra_rule < Len(rules)
       THEN ra_rule' = ra_rule + 1 /\ UNCHANGED ra_target
       ELSE ra_rule' = 1 /\ ra_target' = ra_target + 1
    /\ UNCHANGED <<rules, db, ra_args, report, apply_calls, db_commits, fs,
                   ra_pre_fs>>

\* After the loops: the report, then apply_actions when asked for, then
\* the return
audit_targets_finish ==
    /\ ra_pc = "rules"
    /\ ra_target > Len(ra_args.targets)
    /\ report' = results
    /\ LET apply_fixes == ArgValue(ra_args.apply_fixes, DefaultApplyFixes)
           dry_run == ArgValue(ra_args.dry_run, DefaultDryRun)
           st == apply_actions([fs |-> fs, db |-> db, commits |-> db_commits],
                               AllActions(results), dry_run)
       IN IF apply_fixes /\ results # <<>>
          THEN /\ apply_calls' = Append(apply_calls,
                     [results |-> results, dry_run |-> dry_run])
               /\ fs' = st.fs
               /\ db_commits' = st.commits
          ELSE UNCHANGED <<apply_calls, fs, db_commits>>
    /\ ra_pc' = "returned"
    /\ UNCHANGED <<rules, db, ra_args, ra_target, ra_rule, results,
                   evaluated, ra_pre_fs>>

AuditTargetsCall ==
    /\ ra_pc = "idle"
    /\ \E n \in 0..MaxTargets :
        \E targets \in [1..n -> AuditTargets],
           apply_fixes \in OptionalBool, dry_run \in OptionalBool :
            audit_targets(targets, apply_fixes, dry_run)

\* One audit_targets invocation
RuleNext ==
    \/ AuditTargetsCall
    \/ audit_targets_rule
    \/ audit_targets_finish

\* The WorkspaceAnalytics rows of workspace w
AnalyticsOf(w) ==
    {i \in DOMAIN workspace_analytics :
        workspace_analytics[i].workspace_id = w}

\* The learn_from_sandbox calls made for runs of workspace w
LearnedIn(w) ==
    {k \in DOMAIN learned : sandbox_runs[learned[k].run].workspace_id = w}

\* No WorkspaceAnalytics row disappears and no total_errors decreases
TotalErrorsNeverDecrease ==
    \A i \in DOMAIN workspace_analytics :
        /\ i \in DOMAIN workspace_analytics'
        /\ workspace_analytics'[i].total_errors
              >= workspace_analytics[i].total_errors

\* C38: total_errors of a workspace grows by exactly one on every
\* learn_from_sandbox call for that workspace, for successful and failed
\* runs alike: after n runs from a fresh row it is n, and it never
\* decreases.
C38_TotalErrorsCountsEveryRun ==
    /\ [](\A w \in Workspaces :
            /\ Cardinality(AnalyticsOf(w)) =
                  IF LearnedIn(w) = {} THEN 0 ELSE 1
            /\ \A i \in AnalyticsOf(w) :
                  workspace_analytics[i].total_errors
                     = Cardinality(LearnedIn(w)))
    /\ [][TotalErrorsNeverDecrease]_vars

C38_Witness ==
    /\ Len(learned) = 2
    /\ learned[1].status = "success"
    /\ learned[2].status = "failed"
    /\ LearnedIn("w1") = {1, 2}
    /\ \E i \in AnalyticsOf("w1") : workspace_analytics[i].total_errors = 2

\* The (error_class, error_message) pair of a run
PairOf(run) == <<run.error_class, run.error_message>>

\* Both requests have learned a failed run
BothLearnedFailures ==
    \A p \in Procs : tl_pc[p] = "done" /\ tl_run[p].status = "failed"

\* C39: when two sandbox runs that fail with the same (error_class,
\* error_message) pair are learned concurrently, at most one ErrorPattern
\* row with that signature exists afterwards.
C39_ConcurrentLearningDedups ==
    \A p, q \in Procs :
        (/\ p # q
         /\ BothLearnedFailures
         /\ PairOf(tl_run[p]) = PairOf(tl_run[q]))
        => Cardinality(PatternsOf(SignatureOf(tl_run[p]))) <= 1

\* C40: two failures with different (error_class, error_message) pairs
\* never share a signature input, so each gets an ErrorPattern row of its
\* own, as the pairs ("A", "b:c") and ("A:b", "c") do.
C40_SignatureDistinguishesPairs ==
    \A p, q \in Procs :
        (/\ BothLearnedFailures
         /\ PairOf(tl_run[p]) # PairOf(tl_run[q]))
        => /\ SignatureOf(tl_run[p]) # SignatureOf(tl_run[q])
           /\ \E i, j \in DOMAIN error_patterns :
                 /\ i # j
                 /\ error_patterns[i].error_class = tl_run[p].error_class
                 /\ error_patterns[j].error_class = tl_run[q].error_class

\* ------------------------------------------------------------------------
\* Claims about the rule-level AuditEngine
\* ------------------------------------------------------------------------
\* The (target, rule) pairs are evaluated target by target, rule by rule
EvaluatedInOrder ==
    \A k \in DOMAIN evaluated :
        /\ evaluated[k].target = ((k - 1) \div Len(rules)) + 1
        /\ evaluated[k].rule = ((k - 1) % Len(rules)) + 1

\* Result r is one of the results of the report
InReport(r) == \E i \in DOMAIN report : report[i] = r

\* C22 as stated: a rule that raises on a target does not abort the
\* audit: every pair is evaluated, the result of every pair that did not
\* raise is in the report, and audit_targets returns the report.
C22_EveryResultReported ==
    /\ ra_pc # "raised"
    /\ EvaluatedInOrder
    /\ ra_pc = "returned"
       => /\ Len(evaluated) = Len(ra_args.targets) * Len(rules)
          /\ \A k \in DOMAIN evaluated :
                evaluated[k].raised = None => InReport(evaluated[k].result)

\* C22 amended: a rule that raises on a target does not abort the audit:
\* every pair is evaluated, the result of every pair that did not raise
\* and found an issue or an action is in the report, and audit_targets
\* returns the report.
C22_RuleErrorIsolated ==
    /\ ra_pc # "raised"
    /\ EvaluatedInOrder
    /\ ra_pc = "returned"
       => /\ Len(evaluated) = Len(ra_args.targets) * Len(rules)
          /\ \A k \in DOMAIN evaluated :
                (evaluated[k].raised = None /\ NonEmpty(evaluated[k].result))
                => InReport(evaluated[k].result)
          /\ \A i \in DOMAIN report :
                \E k \in DOMAIN evaluated :
                    /\ evaluated[k].raised = None
                    /\ evaluated[k].result = report[i]

C22_Witness ==
    /\ ra_pc = "returned"
    /\ Len(evaluated) = 4
    /\ evaluated[2].raised = "TypeError"
    /\ evaluated[3].raised = None
    /\ InReport(evaluated[3].result)

\* C23: apply_actions is called exactly when apply_fixes is true and the
\* report has a result, with the dry_run the call was given (true when
\* left out); when dry_run is left out no file changes and nothing is
\* committed.
C23_ApplyOnlyWhenAsked ==
    ra_pc = "returned"
    => LET apply_fixes == ra_args.apply_fixes.given
                          /\ ra_args.apply_fixes.value
           dry_run == ~ra_args.dry_run.given \/ ra_args.dry_run.value
       IN /\ Len(apply_calls) = IF apply_fixes /\ report # <<>> THEN 1
                                ELSE 0
          /\ apply_calls # <<>>
             => /\ apply_calls[1].dry_run = dry_run
                /\ apply_calls[1].results = report
          /\ (apply_calls = <<>> \/ dry_run)
             => /\ fs = ra_pre_fs
                /\ db_commits = 0

C23_Witness ==
    /\ ra_pc = "returned"
    /\ ra_args.apply_fixes = [given |-> TRUE, value |-> TRUE]
    /\ ~ra_args.dry_run.given
    /\ Len(apply_calls) = 1
    /\ \E i \in DOMAIN report :
          report[i].actions # <<>>
          /\ report[i].actions[1].type = "create_file"
    /\ fs[<<"a">>] = None

\* The rule and the target of entry k of evaluated
RuleOf(k) == rules[evaluated[k].rule]

TargetOf(k) == ra_args.targets[evaluated[k].target]

\* The result reports one ERROR issue and one SUGGEST_CHANGE action
ErrorAndSuggestion(result) ==
    /\ Len(result.issues) = 1
    /\ result.issues[1].severity = "error"
    /\ Len(result.actions) = 1
    /\ result.actions[1].type = "suggest_change"

\* C33: the flow-definition-structure rule reports an ERROR issue and a
\* SUGGEST_CHANGE action for every flow target whose definition is not a
\* mapping, empty non-mapping values included, and reports nothing when
\* the definition is a mapping.
C33_NonMappingDefinitionReported ==
    \A k \in DOMAIN evaluated :
        (RuleOf(k).name = "flow_definition_rule" /\ TargetOf(k).type = "flow")
        => /\ evaluated[k].raised = None
           /\ IF TargetOf(k).definition = "dict"
              THEN evaluated[k].result = NoResultOf(TargetOf(k))
              ELSE ErrorAndSuggestion(evaluated[k].result)

\* AuditReport.has_critical() and total_issues() of a list of results
has_critical(rs) ==
    \E i \in DOMAIN rs : \E j \in DOMAIN rs[i].issues :
        rs[i].issues[j].severity \in {"error", "critical"}

RECURSIVE total_issues(_)
total_issues(rs) ==
    IF rs = <<>> THEN 0 ELSE Len(Head(rs).issues) + total_issues(Tail(rs))

\* C34: auditing flow targets whose definition is a mapping with the
\* default rules yields a report with zero issues and has_critical()
\* false.
C34_ValidFlowHasNoIssue ==
    (/\ ra_pc = "returned"
     /\ rules = default_rules
     /\ \A i \in DOMAIN ra_args.targets :
           /\ ra_args.targets[i].type = "flow"
           /\ ra_args.targets[i].definition = "dict")
    => /\ total_issues(report) = 0
       /\ ~has_critical(report)

\* The results of the entries of log that returned with an issue or an
\* action, in the order of log
RECURSIVE ResultsWorthReporting(_)
ResultsWorthReporting(log) ==
    IF log = <<>> THEN <<>>
    ELSE LET e == Head(log)
         IN (IF e.raised = None
                /\ (Len(e.result.issues) > 0 \/ Len(e.result.actions) > 0)
             THEN <<e.result>> ELSE <<>>)
            \o ResultsWorthReporting(Tail(log))

\* C35: the report holds exactly the rule results with at least one issue
\* or one action, in target-then-rule evaluation order; results with no
\* issue and no action never appear in it.
C35_ReportIsNonEmptyResultsInOrder ==
    /\ EvaluatedInOrder
    /\ ra_pc = "returned" => report = ResultsWorthReporting(evaluated)
    /\ \A i \in DOMAIN report :
          report[i].issues # <<>> \/ report[i].actions # <<>>

C35_Witness ==
    /\ ra_pc = "returned"
    /\ Len(evaluated) = 4
    /\ evaluated[1].result.issues = <<>>
    /\ evaluated[1].result.actions = <<>>
    /\ Len(report) = 3
    /\ report[1].issues = <<>>
    /\ report[2].issues # <<>>
    /\ report[2].target = ra_args.targets[2]

\* C36: apply_actions with dry_run=true leaves the file system and the
\* database unchanged for every action kind: no file is created,
\* overwritten, backed up or deleted and no commit is issued.
C36_DryRunAppliesNothing ==
    /\ \A t \in FileActionTypes, c \in Contents :
          LET st == [fs |-> fs, db |-> db, commits |-> db_commits]
              action == [type |-> t, path |-> <<"a">>, content |-> c]
          IN apply_actions(st, <<action, action>>, TRUE) = st
    /\ (ra_pc = "returned" /\ apply_calls # <<>> /\ apply_calls[1].dry_run)
       => (fs = ra_pre_fs /\ db_commits = 0)

C36_Witness ==
    /\ ra_pc = "returned"
    /\ db
    /\ ra_args.dry_run = [given |-> TRUE, value |-> TRUE]
    /\ Len(apply_calls) = 1
    /\ Len(AllActions(apply_calls[1].results)) >= 2
    /\ \E i \in DOMAIN report :
          report[i].actions # <<>>
          /\ report[i].actions[1].type = "delete_file"
    /\ fs[<<"a">>] # None

\* C37: an UPDATE_FILE action executed with dry_run=false on an existing
\* file leaves the .backup sibling holding the content the file had
\* before the action and the file holding the new content; when the file
\* did not exist no backup is created.
C37_UpdateFileBacksUpFirst ==
    \A c \in Contents :
        LET st == [fs |-> fs, db |-> db, commits |-> db_commits]
            action == [type |-> "update_file", path |-> <<"a">>,
                       content |-> c]
            after == apply_single_action(st, action, FALSE)
            backup == BackupPath(<<"a">>)
        IN /\ after.fs[<<"a">>] = c
           /\ after.fs[backup] =
                 IF fs[<<"a">>] # None THEN fs[<<"a">>] ELSE fs[backup]
           /\ after.commits = db_commits
           /\ (/\ ra_pc = "returned"
               /\ apply_calls # <<>>
               /\ ~apply_calls[1].dry_run
               /\ AllActions(report) = <<action>>)
              => /\ fs[<<"a">>] = c
                 /\ fs[backup] =
                       IF ra_pre_fs[<<"a">>] # None THEN ra_pre_fs[<<"a">>]
                       ELSE ra_pre_fs[backup]

C37_Witness ==
    /\ ra_pc = "returned"
    /\ Len(apply_calls) = 1
    /\ ~apply_calls[1].dry_run
    /\ Len(AllActions(report)) = 1
    /\ AllActions(report)[1].type = "update_file"
    /\ ra_pre_fs[<<"a">>] = "c0"
    /\ fs[<<"a">>] = "c1"
    /\ fs[BackupPath(<<"a">>)] = "c0"

\* ------------------------------------------------------------------------
\* Specifications
\* ------------------------------------------------------------------------
\* No audit invocation: the file system is empty and stays so.
AuditQuiet ==
    /\ AuditInit
    /\ fs = [q \in AllPaths |-> None]

\* No router: the AIEngine table is empty and no call is made.
RouterQuiet ==
    /\ engines = <<>>
    /\ provider_overrides = [k \in OverrideKeys |-> TRUE]
    /\ gen = NoGen

\* No runtime engine: no flow is defined and no call is made.
RuntimeQuiet ==
    /\ flow_definitions = <<>>
    /\ max_retries = 0
    /\ rt_pc = "idle"
    /\ rt_args = NoRtArgs
    /\ rt_flow = NoFlowRow
    /\ attempt = 0
    /\ last_error = None
    /\ rt_result = NoRtResult
    /\ rt_error = None
    /\ attempt_log = <<>>

\* File-level audit engine
Init ==
    /\ AuditInit /\ RouterQuiet /\ FlowInit /\ RuntimeQuiet /\ SandboxInit
    /\ RuleQuiet
    /\ LearnQuiet

Next ==
    AuditNext
    /\ UNCHANGED <<router_vars, flow_vars, runtime_vars, sandbox_vars,
                   rule_vars, learn_vars>>

Spec == Init /\ [][Next]_vars

\* File-level audit engine called by two requests at once
NextConcurrent ==
    \/ AuditCallConcurrent
       /\ UNCHANGED <<router_vars, flow_vars, runtime_vars, sandbox_vars,
                      rule_vars, learn_vars>>
    \/ AuditWrite
       /\ UNCHANGED <<router_vars, flow_vars, runtime_vars, sandbox_vars,
                      rule_vars, learn_vars>>

SpecConcurrent == Init /\ [][NextConcurrent]_vars

\* AI router
InitRouter ==
    /\ RouterInit /\ AuditQuiet /\ FlowInit /\ RuntimeQuiet /\ SandboxInit
    /\ RuleQuiet
    /\ LearnQuiet

NextRouter ==
    RouterNext
    /\ UNCHANGED <<audit_vars, flow_vars, runtime_vars, sandbox_vars,
                   rule_vars, learn_vars>>

SpecRouter == InitRouter /\ [][NextRouter]_vars

\* Flow engine over a router whose engines an administrator toggles
\* between steps
InitFlow ==
    /\ FlowInit
    /\ AuditQuiet
    /\ RuntimeQuiet
    /\ SandboxInit
    /\ RuleQuiet
    /\ LearnQuiet
    /\ engines = <<[provider |-> "internal", enabled |-> TRUE, priority |-> 1],
                   [provider |-> "custom", enabled |-> TRUE, priority |-> 2]>>
    /\ provider_overrides = [k \in OverrideKeys |-> TRUE]
    /\ gen = NoGen

NextFlow ==
    \/ FlowNext
       /\ UNCHANGED <<audit_vars, router_vars, runtime_vars, sandbox_vars,
                   rule_vars, learn_vars>>
    \/ ToggleEngine
       /\ UNCHANGED <<audit_vars, flow_vars, runtime_vars, sandbox_vars,
                   rule_vars, learn_vars>>

SpecFlow == InitFlow /\ [][NextFlow]_vars

\* Runtime engine: one run_flow_by_key invocation over the flow engine and
\* a router whose engines an administrator toggles meanwhile
InitRuntime ==
    /\ RuntimeInit
    /\ FlowInit
    /\ AuditQuiet
    /\ SandboxInit
    /\ RuleQuiet
    /\ LearnQuiet
    /\ engines = <<[provider |-> "internal", enabled |-> TRUE, priority |-> 1],
                   [provider |-> "custom", enabled |-> TRUE, priority |-> 2]>>
    /\ provider_overrides = [k \in OverrideKeys |-> TRUE]
    /\ gen = NoGen

NextRuntime ==
    \/ RuntimeNext /\ UNCHANGED <<audit_vars, router_vars, sandbox_vars,
                   rule_vars, learn_vars>>
    \/ ToggleEngine
       /\ UNCHANGED <<audit_vars, flow_vars, runtime_vars, sandbox_vars,
                   rule_vars, learn_vars>>

SpecRuntime == InitRuntime /\ [][NextRuntime]_vars

\* Sandbox engine run on stored versions: two artifacts, one per
\* workspace, each with one version that no sandbox has run yet
InitSandbox ==
    /\ SandboxInit
    /\ AuditQuiet
    /\ RuleQuiet
    /\ LearnQuiet
    /\ RouterQuiet
    /\ RuntimeQuiet
    /\ flow_runs = <<>>
    /\ artifacts = <<[artifact_type |-> "code", key |-> <<"t">>,
                      step |-> "a", workspace_id |-> "w1"],
                     [artifact_type |-> "code", key |-> <<"t">>,
                      step |-> "a", workspace_id |-> "w2"]>>
    /\ artifact_versions =
          <<[artifact_id |-> 1, version_index |-> 1, content |-> "x=1",
             created_by_flow_id |-> "f1", sandbox_status |-> None],
            [artifact_id |-> 2, version_index |-> 1, content |-> "x=1",
             created_by_flow_id |-> "f3", sandbox_status |-> None]>>
    /\ flow_pc = "idle"
    /\ flow = NoFlow
    /\ flow_run = 0
    /\ step_idx = 0
    /\ step_outputs = <<>>
    /\ flow_result = NoResult
    /\ started = <<>>
    /\ step_log = <<>>
    /\ runs = 0

NextSandbox ==
    SandboxNext
    /\ UNCHANGED <<audit_rest, router_vars, flow_rest, runtime_vars, rule_vars,
                   learn_vars>>

SpecSandbox == InitSandbox /\ [][NextSandbox]_vars

\* Rule-level audit engine: one audit_targets invocation over a file system
\* in which file "a" may exist
InitRules ==
    /\ AuditInit
    /\ RuleInit
    /\ LearnQuiet
    /\ RouterQuiet
    /\ FlowInit
    /\ RuntimeQuiet
    /\ SandboxInit

NextRules ==
    RuleNext
    /\ UNCHANGED <<audit_db_vars, router_vars, flow_vars, runtime_vars,
                   sandbox_vars, learn_vars>>

SpecRules == InitRules /\ [][NextRules]_vars

\* Teaching engine called by two requests at once, each with a stored run
InitLearning ==
    /\ AuditQuiet
    /\ RouterQuiet
    /\ FlowInit
    /\ RuntimeQuiet
    /\ SandboxInit
    /\ RuleQuiet
    /\ LearnQuiet

NextLearning ==
    LearnNext
    /\ UNCHANGED <<sb_pc, sb_version, sb_run, sb_exec, sb_calls, learned>>
    /\ UNCHANGED <<audit_vars, router_vars, flow_vars, runtime_vars, rule_vars>>

SpecLearning == InitLearning /\ [][NextLearning]_vars

====
